---- MODULE Spec2Model ----
(***************************************************************************)
(* RDP-Timeline: RDPTimelineBuilder (src/timeline.py).                     *)
(*                                                                         *)
(* build_timeline sorts the raw events by parsed_time; build_sessions      *)
(* scans the sorted timeline once (session pass) and then attaches the     *)
(* administratively significant events to sessions through grace windows   *)
(* (grace-correlation pass).                                               *)
(*                                                                         *)
(* Times are whole minutes.  An event is identified by its index in        *)
(* raw_events: the timeline, the sessions' events lists and the            *)
(* _correlation tags all refer to the same event objects.  The details     *)
(* mapping of an event only feeds the user / source_ip fields of a         *)
(* session and never the control flow.                                     *)
(***************************************************************************)
EXTENDS Integers, Sequences, FiniteSets, TLC

(* ---------------- bounds of the checked inputs ---------------- *)

\* longest raw event list
MaxEvents == 3

\* longest raw event list of the inputs that vary the details mappings
MaxFieldEvents == 2

\* event ids of the input events: the start marker, a logoff marker, an
\* administratively significant id, and an id that is none of these
InputIds == {"21", "24", "4732", "4624"}

\* parsed times (minutes) of the input events
InputTimes == {0, 5, 20, 21, 81}

(* ---------------- program constants ---------------- *)

GRACE_BEFORE == 5

GRACE_AFTER == 15

INACTIVITY_TIMEOUT == 60

\* Python None for a parsed_time, a last_event_time or an end_time
NoTime == -1

\* datetime.datetime.min, the sort key of an event without parsed_time; it is
\* offset-naive, while every parsed "...Z" timestamp is offset-aware
DatetimeMin == -2

\* Python None for an end_reason or a _correlation tag
NoValue == "None"

\* Python None for current_session; an open session s is <<s>>
NoSession == << >>

dfir_ids == {"4720", "4722", "4724", "4728", "4732", "4698", "7045", "1102"}

LogoffIds_only24 == {"24"}

LogoffIds == {"24", "4634"}

StartId == "21"

EndReasons ==
    {"explicit_logoff", "overlapping_session_start",
     "inactivity_timeout", "session_open_at_log_end"}

(* ---------------- state ---------------- *)

VARIABLES
    raw_events,       \* self.raw_events: sequence of event records
    timeline,         \* self.timeline: sequence of event indices
    correlation,      \* ev["_correlation"] of every event
    sessions,         \* self.sessions
    current_session,  \* local of build_sessions
    last_event_time,  \* local of build_sessions
    dfir_events,      \* local of build_sessions (grace pass)
    i,                \* position of the session pass in timeline
    j,                \* position of the grace pass in dfir_events
    pc                \* "start", "scan", "grace", "done", "raised"

vars == <<raw_events, timeline, correlation, sessions, current_session,
          last_event_time, dfir_events, i, j, pc>>

(* ---------------- event records ---------------- *)

\* A raw timestamp string, by what datetime.fromisoformat makes of it
\* after "Z" has been replaced by "+00:00".
\* no timestamp at all (key missing, None or empty string)
Absent == [kind |-> "absent", minute |-> NoTime]

\* the sentinel "N/A" the parser stores when TimeCreated is missing
NotAvailable == [kind |-> "N/A", minute |-> NoTime]

\* any other string fromisoformat rejects
Malformed == [kind |-> "malformed", minute |-> NoTime]

\* "2026-01-01T00:05:00Z": parses to an offset-aware datetime
Utc(m) == [kind |-> "utc", minute |-> m]

\* "2026-01-01T00:05:00": parses to an offset-naive datetime
Naive(m) == [kind |-> "naive", minute |-> m]

\* RDPEventParser._convert_time
convert_time(ts) ==
    IF ts.kind \in {"absent", "N/A"} THEN NoTime
    ELSE IF ts.kind \in {"utc", "naive"} THEN ts.minute
    ELSE NoTime

\* RDPTimelineBuilder._parse_timestamp: every failure is caught
parse_timestamp(ts) ==
    IF ts.kind \in {"utc", "naive"} THEN ts.minute ELSE NoTime

\* an event's details mapping without any key
NoDetails == << >>

\* the event record the parser appends (parser.py lines 96-103)
ParsedEvent(id, ts, d) ==
    [event_id    |-> id,
     timestamp   |-> ts,
     parsed_time |-> convert_time(ts),
     details     |-> d]

\* an event record that follows the input contract only: no parsed_time yet
UnparsedEvent(id, ts, d) ==
    [event_id    |-> id,
     timestamp   |-> ts,
     parsed_time |-> NoTime,
     details     |-> d]

\* the parsed_time of ev is an offset-aware datetime
IsAware(ev) == ev.parsed_time # NoTime /\ ev.timestamp.kind = "utc"

Event ==
    {ParsedEvent(id, ts, NoDetails) :
        id \in InputIds,
        ts \in {Utc(t) : t \in InputTimes} \cup {NotAvailable}}

RawInputs == UNION {[1..n -> Event] : n \in 1..MaxEvents}

(* ---------------- build_timeline ---------------- *)

SortKey(ev) ==
    IF ev.parsed_time # NoTime THEN ev.parsed_time ELSE DatetimeMin

\* lines 31-33: events without parsed_time get the fallback parse
FillParsedTime(evs) ==
    [k \in 1..Len(evs) |->
        IF evs[k].parsed_time # NoTime
        THEN evs[k]
        ELSE [evs[k] EXCEPT !.parsed_time = parse_timestamp(evs[k].timestamp)]]

\* comparing an offset-naive key (datetime.min or a naive parsed_time) with
\* an offset-aware key raises TypeError; a sort of a list holding both kinds
\* has to compare two of them
SortRaises(evs) ==
    \E a, b \in 1..Len(evs) : ~IsAware(evs[a]) /\ IsAware(evs[b])

RECURSIVE InsertStable_before(_, _, _)
InsertStable_before(seq, e, evs) ==
    IF seq = << >> THEN <<e>>
    ELSE IF SortKey(evs[Head(seq)]) < SortKey(evs[e])
         THEN <<Head(seq)>> \o InsertStable_before(Tail(seq), e, evs)
         ELSE <<e>> \o seq

RECURSIVE InsertStable(_, _, _)
InsertStable(seq, e, evs) ==
    IF seq = << >> THEN <<e>>
    ELSE IF SortKey(evs[Head(seq)]) <= SortKey(evs[e])
         THEN <<Head(seq)>> \o InsertStable(Tail(seq), e, evs)
         ELSE <<e>> \o seq

RECURSIVE SortPrefix(_, _)
SortPrefix(evs, n) ==
    IF n = 0 THEN << >> ELSE InsertStable(SortPrefix(evs, n - 1), n, evs)

sorted_unsorted(evs) == [k \in 1..Len(evs) |-> k]

\* sorted(self.raw_events, key=...): stable, ascending
sorted(evs) == SortPrefix(evs, Len(evs))

(* ---------------- build_sessions: helpers ---------------- *)

UserKeys ==
    <<"TargetUserName", "SubjectUserName", "User", "AccountName", "Param1">>

IpKeys ==
    <<"IpAddress", "ClientAddress", "SourceNetworkAddress", "Address",
      "Param3">>

\* details.get(k)
Get(d, k) == IF k \in DOMAIN d THEN d[k] ELSE NoValue

\* truth value of a details value: None and "" are false
Truthy(v) == v # NoValue /\ v # ""

RECURSIVE OrChainFrom(_, _, _)
OrChainFrom(d, keys, n) ==
    IF n = Len(keys) \/ Truthy(Get(d, keys[n]))
    THEN Get(d, keys[n])
    ELSE OrChainFrom(d, keys, n + 1)

\* details.get(k1) or details.get(k2) or ...: the first true operand, and
\* the last operand when none is true
OrChain(d, keys) == OrChainFrom(d, keys, 1)

\* lines 60-66
ExtractUser(d) == OrChain(d, UserKeys)

\* lines 69-75
ExtractIp(d) == OrChain(d, IpKeys)

NewSession_empty(t, e) ==
    [start_time   |-> t,
     end_time     |-> NoTime,
     start_reason |-> "lsm_session_start",
     end_reason   |-> NoValue,
     user         |-> ExtractUser(raw_events[e].details),
     source_ip    |-> ExtractIp(raw_events[e].details),
     events       |-> << >>]

\* lines 96-104
NewSession(t, e) ==
    [start_time   |-> t,
     end_time     |-> NoTime,
     start_reason |-> "lsm_session_start",
     end_reason   |-> NoValue,
     user         |-> ExtractUser(raw_events[e].details),
     source_ip    |-> ExtractIp(raw_events[e].details),
     events       |-> <<e>>]

CloseSession_noreason(s, t, reason) == [s EXCEPT !.end_time = t]

\* lines 80-81, 90-91, 114-115, 121-122
CloseSession(s, t, reason) ==
    [s EXCEPT !.end_time = t, !.end_reason = reason]

AttachTo_prepend(s, e) == [s EXCEPT !.events = <<e>> \o @]

\* lines 110, 151: s["events"].append(ev)
AttachTo(s, e) == [s EXCEPT !.events = Append(@, e)]

InactivityFires_ge(t) ==
    /\ current_session # NoSession
    /\ last_event_time # NoTime
    /\ t - last_event_time >= INACTIVITY_TIMEOUT

\* lines 78-79: the open session has been silent for more than the timeout
InactivityFires(t) ==
    /\ current_session # NoSession
    /\ last_event_time # NoTime
    /\ t - last_event_time > INACTIVITY_TIMEOUT

SessionsAfterInactivity_dropped(t) == sessions

\* self.sessions after the inactivity check of one iteration
SessionsAfterInactivity(t) ==
    IF InactivityFires(t)
    THEN Append(sessions,
                CloseSession(current_session[1], last_event_time,
                             "inactivity_timeout"))
    ELSE sessions

CurrentAfterInactivity_kept(t) == current_session

\* current_session after the inactivity check of one iteration
CurrentAfterInactivity(t) ==
    IF InactivityFires(t) THEN NoSession ELSE current_session

InWindow_swapped(s, t) ==
    LET start == s.start_time - GRACE_AFTER
        end   == (IF s.end_time # NoTime THEN s.end_time ELSE s.start_time)
                 + GRACE_BEFORE
    IN  start <= t /\ t <= end

\* lines 141-144: the extended window of session s contains t
InWindow(s, t) ==
    LET start == s.start_time - GRACE_BEFORE
        end   == (IF s.end_time # NoTime THEN s.end_time ELSE s.start_time)
                 + GRACE_AFTER
    IN  start <= t /\ t <= end

RECURSIVE MatchFrom(_, _, _)
MatchFrom(ss, t, k) ==
    IF k > Len(ss) THEN 0
    ELSE IF InWindow(ss[k], t) THEN k
    ELSE MatchFrom(ss, t, k + 1)

RECURSIVE MatchDownFrom(_, _, _)
MatchDownFrom(ss, t, k) ==
    IF k = 0 THEN 0
    ELSE IF InWindow(ss[k], t) THEN k
    ELSE MatchDownFrom(ss, t, k - 1)

FirstMatch_last(ss, t) == MatchDownFrom(ss, t, Len(ss))

\* lines 140-152: index of the session the inner loop breaks at, 0 if none
FirstMatch(ss, t) == MatchFrom(ss, t, 1)

GraceTag_flipped(s, t) ==
    IF t <= s.start_time THEN "grace_before" ELSE "grace_after"

\* lines 146-149
GraceTag(s, t) ==
    IF t < s.start_time THEN "grace_before" ELSE "grace_after"

(* ---------------- initial state ---------------- *)

Init ==
    /\ raw_events \in RawInputs
    /\ timeline = << >>
    /\ correlation = [e \in 1..Len(raw_events) |-> NoValue]
    /\ sessions = << >>
    /\ current_session = NoSession
    /\ last_event_time = NoTime
    /\ dfir_events = << >>
    /\ i = 1
    /\ j = 1
    /\ pc = "start"

(* ---------------- build_timeline ---------------- *)

\* lines 31-39: the sort raises TypeError, which nothing catches
BuildTimelineRaises ==
    /\ pc = "start"
    /\ raw_events' = FillParsedTime(raw_events)
    /\ SortRaises(raw_events')
    /\ pc' = "raised"
    /\ UNCHANGED <<timeline, correlation, sessions,
                   current_session, last_event_time, dfir_events, i, j>>

\* lines 31-42
BuildTimeline ==
    /\ pc = "start"
    /\ raw_events' = FillParsedTime(raw_events)
    /\ ~SortRaises(raw_events')
    /\ timeline' = sorted(raw_events')
    /\ pc' = "scan"
    /\ UNCHANGED <<correlation, sessions, current_session,
                   last_event_time, dfir_events, i, j>>

(* ---------------- build_sessions: session pass ---------------- *)

Scanning == pc = "scan" /\ i <= Len(timeline)

CurEv == timeline[i]

CurId == raw_events[CurEv].event_id

CurTime == raw_events[CurEv].parsed_time

SkipUntimed_opens ==
    /\ Scanning
    /\ CurTime = NoTime
    /\ i' = i + 1
    /\ IF CurId = StartId
       THEN /\ current_session' = <<NewSession(CurTime, CurEv)>>
            /\ correlation' = [correlation EXCEPT ![CurEv] = "in_session"]
       ELSE UNCHANGED <<current_session, correlation>>
    /\ UNCHANGED <<raw_events, timeline, sessions, last_event_time,
                   dfir_events, j, pc>>

\* lines 56-57
SkipUntimed ==
    /\ Scanning
    /\ CurTime = NoTime
    /\ i' = i + 1
    /\ UNCHANGED <<raw_events, timeline, correlation, sessions,
                   current_session, last_event_time, dfir_events, j, pc>>

\* lines 77-105
StartMarker ==
    /\ Scanning
    /\ CurTime # NoTime
    /\ CurId = StartId
    /\ LET cs == CurrentAfterInactivity(CurTime)
           ss == SessionsAfterInactivity(CurTime)
       IN  sessions' =
               IF cs # NoSession
               THEN Append(ss, CloseSession(cs[1], CurTime,
                                            "overlapping_session_start"))
               ELSE ss
    /\ correlation' = [correlation EXCEPT ![CurEv] = "in_session"]
    /\ current_session' = <<NewSession(CurTime, CurEv)>>
    /\ last_event_time' = CurTime
    /\ i' = i + 1
    /\ UNCHANGED <<raw_events, timeline, dfir_events, j, pc>>

\* lines 77-85, 107-110: an event that is no start and no logoff marker
AttachEvent ==
    /\ Scanning
    /\ CurTime # NoTime
    /\ CurId # StartId
    /\ CurId \notin LogoffIds
    /\ CurrentAfterInactivity(CurTime) # NoSession
    /\ sessions' = SessionsAfterInactivity(CurTime)
    /\ correlation' = [correlation EXCEPT ![CurEv] = "in_session"]
    /\ current_session' =
           <<AttachTo(CurrentAfterInactivity(CurTime)[1], CurEv)>>
    /\ last_event_time' = CurTime
    /\ i' = i + 1
    /\ UNCHANGED <<raw_events, timeline, dfir_events, j, pc>>

\* lines 77-85, 107-117: a logoff marker in an open session
ExplicitLogoff ==
    /\ Scanning
    /\ CurTime # NoTime
    /\ CurId \in LogoffIds
    /\ CurrentAfterInactivity(CurTime) # NoSession
    /\ sessions' =
           Append(SessionsAfterInactivity(CurTime),
                  CloseSession(
                      AttachTo(CurrentAfterInactivity(CurTime)[1], CurEv),
                      CurTime, "explicit_logoff"))
    /\ correlation' = [correlation EXCEPT ![CurEv] = "in_session"]
    /\ current_session' = NoSession
    /\ last_event_time' = CurTime
    /\ i' = i + 1
    /\ UNCHANGED <<raw_events, timeline, dfir_events, j, pc>>

\* lines 77-85, 108: no session is open and the event is no start marker
DropIdle ==
    /\ Scanning
    /\ CurTime # NoTime
    /\ CurId # StartId
    /\ CurrentAfterInactivity(CurTime) = NoSession
    /\ sessions' = SessionsAfterInactivity(CurTime)
    /\ current_session' = NoSession
    /\ last_event_time' = CurTime
    /\ i' = i + 1
    /\ UNCHANGED <<raw_events, timeline, correlation, dfir_events, j, pc>>

IsDfir(e) == raw_events[e].event_id \in dfir_ids

EndOfScan_at_start ==
    /\ pc = "scan"
    /\ i > Len(timeline)
    /\ sessions' =
           IF current_session # NoSession
           THEN Append(sessions,
                       CloseSession(current_session[1],
                                    current_session[1].start_time,
                                    "session_open_at_log_end"))
           ELSE sessions
    /\ current_session' = NoSession
    /\ dfir_events' = SelectSeq(timeline, IsDfir)
    /\ j' = 1
    /\ pc' = "grace"
    /\ UNCHANGED <<raw_events, timeline, correlation, last_event_time, i>>

\* lines 119-133: the loop is over; the local current_session is not read
\* again (the open session, if any, is the object appended here)
EndOfScan ==
    /\ pc = "scan"
    /\ i > Len(timeline)
    /\ sessions' =
           IF current_session # NoSession
           THEN Append(sessions,
                       CloseSession(current_session[1], last_event_time,
                                    "session_open_at_log_end"))
           ELSE sessions
    /\ current_session' = NoSession
    /\ dfir_events' = SelectSeq(timeline, IsDfir)
    /\ j' = 1
    /\ pc' = "grace"
    /\ UNCHANGED <<raw_events, timeline, correlation, last_event_time, i>>

(* ---------------- build_sessions: grace-correlation pass ---------------- *)

Correlating == pc = "grace" /\ j <= Len(dfir_events)

GraceEv == dfir_events[j]

GraceTime == raw_events[GraceEv].parsed_time

\* lines 136-138
GraceSkipUntimed ==
    /\ Correlating
    /\ GraceTime = NoTime
    /\ j' = j + 1
    /\ UNCHANGED <<raw_events, timeline, correlation, sessions,
                   current_session, last_event_time, dfir_events, i, pc>>

\* lines 140-152: the inner loop breaks at the first session that matches
GraceAttach ==
    /\ Correlating
    /\ GraceTime # NoTime
    /\ FirstMatch(sessions, GraceTime) # 0
    /\ LET k == FirstMatch(sessions, GraceTime)
       IN  /\ correlation' =
                  [correlation EXCEPT
                      ![GraceEv] = GraceTag(sessions[k], GraceTime)]
           /\ sessions' =
                  [sessions EXCEPT ![k] = AttachTo(@, GraceEv)]
    /\ j' = j + 1
    /\ UNCHANGED <<raw_events, timeline, current_session, last_event_time,
                   dfir_events, i, pc>>

\* lines 140-144: the inner loop ends without a match
GraceNoMatch ==
    /\ Correlating
    /\ GraceTime # NoTime
    /\ FirstMatch(sessions, GraceTime) = 0
    /\ j' = j + 1
    /\ UNCHANGED <<raw_events, timeline, correlation, sessions,
                   current_session, last_event_time, dfir_events, i, pc>>

\* line 154
Return ==
    /\ pc = "grace"
    /\ j > Len(dfir_events)
    /\ pc' = "done"
    /\ UNCHANGED <<raw_events, timeline, correlation, sessions,
                   current_session, last_event_time, dfir_events, i, j>>

(* ---------------- build_sessions as a function of the timeline -------- *)

\* lines 51-117: one iteration of the session pass on event e, from the
\* locals and outputs st = [ss, cs, let, corr]
ScanEvent(st, e) ==
    LET t     == raw_events[e].parsed_time
        id    == raw_events[e].event_id
        fires == /\ st.cs # NoSession
                 /\ st.let # NoTime
                 /\ t - st.let > INACTIVITY_TIMEOUT
        ss1   == IF fires
                 THEN Append(st.ss, CloseSession(st.cs[1], st.let,
                                                 "inactivity_timeout"))
                 ELSE st.ss
        cs1   == IF fires THEN NoSession ELSE st.cs
        tag   == [st.corr EXCEPT ![e] = "in_session"]
    IN  IF t = NoTime THEN st
        ELSE IF id = StartId THEN
            [ss   |-> IF cs1 # NoSession
                      THEN Append(ss1, CloseSession(cs1[1], t,
                                          "overlapping_session_start"))
                      ELSE ss1,
             cs   |-> <<NewSession(t, e)>>,
             let  |-> t,
             corr |-> tag]
        ELSE IF cs1 = NoSession THEN
            [ss |-> ss1, cs |-> NoSession, let |-> t, corr |-> st.corr]
        ELSE IF id \in LogoffIds THEN
            [ss   |-> Append(ss1, CloseSession(AttachTo(cs1[1], e), t,
                                               "explicit_logoff")),
             cs   |-> NoSession,
             let  |-> t,
             corr |-> tag]
        ELSE
            [ss   |-> ss1,
             cs   |-> <<AttachTo(cs1[1], e)>>,
             let  |-> t,
             corr |-> tag]

RECURSIVE ScanFrom(_, _, _)
ScanFrom(st, tl, p) ==
    IF p > Len(tl) THEN st ELSE ScanFrom(ScanEvent(st, tl[p]), tl, p + 1)

\* lines 48-123: the session pass and the close at the end of the logs
SessionPass(tl) ==
    LET st == ScanFrom([ss   |-> << >>,
                        cs   |-> NoSession,
                        let  |-> NoTime,
                        corr |-> [e \in 1..Len(raw_events) |-> NoValue]],
                       tl, 1)
    IN  [ss   |-> IF st.cs # NoSession
                  THEN Append(st.ss, CloseSession(st.cs[1], st.let,
                                                  "session_open_at_log_end"))
                  ELSE st.ss,
         corr |-> st.corr]

\* lines 135-152: one iteration of the grace pass on event e
GraceEvent(g, e) ==
    LET t == raw_events[e].parsed_time
        k == FirstMatch(g.ss, t)
    IN  IF t = NoTime \/ k = 0 THEN g
        ELSE [ss   |-> [g.ss EXCEPT ![k] = AttachTo(@, e)],
              corr |-> [g.corr EXCEPT ![e] = GraceTag(g.ss[k], t)]]

RECURSIVE GraceFrom(_, _, _)
GraceFrom(g, evs, p) ==
    IF p > Len(evs) THEN g ELSE GraceFrom(GraceEvent(g, evs[p]), evs, p + 1)

\* build_sessions run on the timeline tl: the session list and the tags
build_sessions(tl) == GraceFrom(SessionPass(tl), SelectSeq(tl, IsDfir), 1)

Next ==
    \/ BuildTimelineRaises
    \/ BuildTimeline
    \/ SkipUntimed
    \/ StartMarker
    \/ AttachEvent
    \/ ExplicitLogoff
    \/ DropIdle
    \/ EndOfScan
    \/ GraceSkipUntimed
    \/ GraceAttach
    \/ GraceNoMatch
    \/ Return

Spec == Init /\ [][Next]_vars

(* ---------------- other inputs ---------------- *)

\* the state after construction on the raw events evs
InitOn(evs) ==
    /\ raw_events = evs
    /\ timeline = << >>
    /\ correlation = [e \in 1..Len(evs) |-> NoValue]
    /\ sessions = << >>
    /\ current_session = NoSession
    /\ last_event_time = NoTime
    /\ dfir_events = << >>
    /\ i = 1
    /\ j = 1
    /\ pc = "start"

\* parsed events with both logoff markers
LogoffInputIds == {"21", "24", "4634", "4732"}

LogoffInputTimes == {0, 5, 81}

LogoffEvent ==
    {ParsedEvent(id, ts, NoDetails) :
        id \in LogoffInputIds,
        ts \in {Utc(t) : t \in LogoffInputTimes} \cup {NotAvailable}}

InitLogoff ==
    \E evs \in UNION {[1..n -> LogoffEvent] : n \in 1..MaxEvents} :
        InitOn(evs)

SpecLogoff == InitLogoff /\ [][Next]_vars

\* event records as the input contract gives them, parsed by build_timeline:
\* timestamps that are missing, "N/A", malformed, UTC ("...Z") or without a
\* zone designator
SortInputIds == {"21", "24", "4732"}

SortInputTimes == {0, 81}

SortTimestamps ==
    {Absent, NotAvailable, Malformed}
        \cup {Utc(t) : t \in SortInputTimes}
        \cup {Naive(t) : t \in SortInputTimes}

SortEvent ==
    {UnparsedEvent(id, ts, NoDetails) :
        id \in SortInputIds, ts \in SortTimestamps}

InitSort ==
    \E evs \in UNION {[1..n -> SortEvent] : n \in 1..MaxEvents} :
        InitOn(evs)

SpecSort == InitSort /\ [][Next]_vars

\* parsed events whose details hold any choice of the candidate keys of the
\* user and source_ip lookups: per position of the two key lists the key is
\* absent, present with an empty string, or present with a value; a value
\* names its key and its event
FieldInputIds == {"21", "24", "4732"}

FieldTimestamps == {NotAvailable, Utc(0)}

KeyPatterns == [1..Len(UserKeys) -> {"absent", "empty", "value"}]

PositionOf(k) ==
    CHOOSE n \in 1..Len(UserKeys) : UserKeys[n] = k \/ IpKeys[n] = k

DetailsOf(pat, e) ==
    [k \in {UserKeys[n] : n \in {m \in 1..Len(UserKeys) : pat[m] # "absent"}}
          \cup {IpKeys[n] : n \in {m \in 1..Len(IpKeys) : pat[m] # "absent"}}
      |-> IF pat[PositionOf(k)] = "empty"
          THEN ""
          ELSE k \o "#" \o ToString(e)]

FieldShapes ==
    UNION {[1..n -> [id : FieldInputIds, ts : FieldTimestamps]] :
              n \in 1..MaxFieldEvents}

InitFields ==
    \E pat \in KeyPatterns : \E shape \in FieldShapes :
        InitOn([e \in 1..Len(shape) |->
                   ParsedEvent(shape[e].id, shape[e].ts, DetailsOf(pat, e))])

SpecFields == InitFields /\ [][Next]_vars

(* ---------------- properties ---------------- *)

Events == 1..Len(raw_events)

TimeOf(e) == raw_events[e].parsed_time

\* number of positions of the events list of s that hold event e
Occurrences(s, e) == Cardinality({p \in 1..Len(s.events) : s.events[p] = e})

\* indices of the sessions of the output list that have e as a member
SessionsOf(e) == {k \in 1..Len(sessions) : Occurrences(sessions[k], e) > 0}

\* every session record that exists: the output list and the open session
AllSessions ==
    {sessions[k] : k \in 1..Len(sessions)}
        \cup {current_session[k] : k \in 1..Len(current_session)}

\* C1: after build_timeline and build_sessions no event is a member of the
\* events lists of two different sessions.
C1_NoEventInTwoSessions ==
    pc = "done" => \A e \in Events : Cardinality(SessionsOf(e)) <= 1

\* C2: once an event's _correlation tag is set, no later step of the session
\* pass or of the grace pass changes it to a different value.
C2_TagNeverOverwritten ==
    [][\A e \in Events :
          correlation[e] # NoValue => correlation'[e] = correlation[e]]_vars

\* C3: every session of the output list has start_time <= end_time,
\* whichever close path closed it.
C3_StartBeforeEnd ==
    \A k \in 1..Len(sessions) :
        sessions[k].start_time <= sessions[k].end_time

C3_Witness ==
    /\ pc = "done"
    /\ \E k1, k2 \in 1..Len(sessions) :
        /\ sessions[k1].end_reason # sessions[k2].end_reason
        /\ sessions[k1].start_time < sessions[k1].end_time
        /\ sessions[k2].start_time < sessions[k2].end_time

\* C4: in every state a session's end_reason is non-null exactly when its
\* end_time is non-null, and every session of the output list has a non-null
\* end_time and one of the four end reasons.
C4_EndReasonWithEndTime ==
    /\ \A s \in AllSessions :
           (s.end_reason # NoValue) <=> (s.end_time # NoTime)
    /\ \A k \in 1..Len(sessions) :
           /\ sessions[k].end_time # NoTime
           /\ sessions[k].end_reason \in EndReasons

C4_Witness ==
    /\ Len(sessions) > 0
    /\ current_session # NoSession
    /\ current_session[1].end_time = NoTime

StartMarkers == {e \in Events : raw_events[e].event_id = "21"}

\* timestamped start markers the session pass has gone through
TimedStartsSeen ==
    {p \in 1..Len(timeline) :
        /\ p < i
        /\ raw_events[timeline[p]].event_id = "21"
        /\ TimeOf(timeline[p]) # NoTime}

\* C5 (as stated): the number of sessions in the output equals the number
\* of start-marker events in the timeline.
C5_SessionPerStartMarker ==
    pc = "done" => Len(sessions) = Cardinality(StartMarkers)

\* C5 (amended): every start marker that has a timestamp opens a new session
\* and every opened session reaches the output list: at each point of the
\* run the sessions closed so far plus the open one are as many as the
\* timestamped start markers scanned so far.
C5_SessionPerTimedStartMarker ==
    pc \in {"scan", "grace", "done"} =>
        Len(sessions) + Len(current_session) = Cardinality(TimedStartsSeen)

C5_Witness ==
    /\ pc = "done"
    /\ Len(sessions) = 2
    /\ Cardinality(StartMarkers) = 2
    /\ \E k \in 1..Len(sessions) :
           sessions[k].end_reason = "inactivity_timeout"

\* C6: a member event tagged grace_before is strictly earlier than its
\* session's start_time; one tagged grace_after is at or after it.
C6_GraceTagSide ==
    \A k \in 1..Len(sessions) : \A p \in 1..Len(sessions[k].events) :
        LET e == sessions[k].events[p]
        IN  /\ correlation[e] = "grace_before"
                => TimeOf(e) < sessions[k].start_time
            /\ correlation[e] = "grace_after"
                => TimeOf(e) >= sessions[k].start_time

C6_Witness ==
    /\ pc = "done"
    /\ \E k \in 1..Len(sessions) :
         \E p, q \in 1..Len(sessions[k].events) :
            /\ correlation[sessions[k].events[p]] = "grace_before"
            /\ correlation[sessions[k].events[q]] = "grace_after"

\* C7: an administratively significant event whose time lies inside
\* [start_time, end_time] of a session is, after build_sessions, in exactly
\* one session's events list and exactly once in that list.
C7_InSessionDfirOnce ==
    pc = "done" =>
        \A e \in Events :
            ( /\ IsDfir(e)
              /\ TimeOf(e) # NoTime
              /\ \E k \in 1..Len(sessions) :
                    /\ sessions[k].start_time <= TimeOf(e)
                    /\ TimeOf(e) <= sessions[k].end_time )
            => /\ Cardinality(SessionsOf(e)) = 1
               /\ \A k \in SessionsOf(e) : Occurrences(sessions[k], e) = 1

\* the extended window of session s, as the claim words it
ExtendedWindowHas(s, t) ==
    /\ s.start_time - 5 <= t
    /\ t <= (IF s.end_time # NoTime THEN s.end_time ELSE s.start_time) + 15

WindowMatches(t) ==
    {k \in 1..Len(sessions) : ExtendedWindowHas(sessions[k], t)}

LowestOf(S) == CHOOSE m \in S : \A k \in S : m <= k

C8_Step ==
    (pc = "grace" /\ j <= Len(dfir_events) /\ j' = j + 1) =>
        LET e == dfir_events[j]
            M == WindowMatches(TimeOf(e))
        IN  /\ IsDfir(e)
            /\ (TimeOf(e) # NoTime /\ M # {}) =>
                   /\ Len(sessions') = Len(sessions)
                   /\ \A k \in 1..Len(sessions) :
                          sessions'[k] =
                              IF k = LowestOf(M)
                              THEN [sessions[k] EXCEPT
                                       !.events = Append(@, e)]
                              ELSE sessions[k]
                   /\ correlation'[e] \in {"grace_before", "grace_after"}
            /\ (TimeOf(e) = NoTime \/ M = {}) =>
                   /\ sessions' = sessions
                   /\ correlation' = correlation
                   /\ correlation[e] \notin {"grace_before", "grace_after"}

\* C8: the grace pass appends each timestamped administratively significant
\* event to the lowest-index session whose extended window
\* [start_time - 5, (end_time or start_time) + 15] contains its time and to
\* no other session; an event in no window is appended nowhere and gets no
\* grace tag.
C8_FirstWindowWins == [][C8_Step]_vars

C8_Witness ==
    /\ pc = "done"
    /\ \E e \in Events : \E k1, k2 \in 1..Len(sessions) :
        /\ IsDfir(e)
        /\ k1 < k2
        /\ ExtendedWindowHas(sessions[k1], TimeOf(e))
        /\ ExtendedWindowHas(sessions[k2], TimeOf(e))
        /\ Occurrences(sessions[k1], e) = 1
        /\ Occurrences(sessions[k2], e) = 0

C9_Step ==
    ( /\ pc = "scan"
      /\ i <= Len(timeline)
      /\ CurTime # NoTime
      /\ current_session # NoSession
      /\ last_event_time # NoTime ) =>
        /\ (CurTime - last_event_time > 60) =>
               /\ Len(sessions') > Len(sessions)
               /\ \A k \in 1..Len(sessions) : sessions'[k] = sessions[k]
               /\ sessions'[Len(sessions) + 1] =
                      [current_session[1] EXCEPT
                          !.end_time = last_event_time,
                          !.end_reason = "inactivity_timeout"]
        /\ (CurTime - last_event_time = 60) =>
               /\ \A k \in (Len(sessions) + 1)..Len(sessions') :
                      sessions'[k].end_reason # "inactivity_timeout"
               /\ (CurId # "21" /\ CurId \notin {"24", "4634"}) =>
                      /\ sessions' = sessions
                      /\ current_session' =
                             <<[current_session[1] EXCEPT
                                   !.events = Append(@, CurEv)]>>

\* C9: an event arriving more than 60 minutes after last_event_time closes
\* the open session with end_reason inactivity_timeout and end_time = the
\* previous last_event_time, without the arriving event among its members;
\* a gap of exactly 60 minutes does not close the session.
C9_InactivityClose == [][C9_Step]_vars

C9_Witness ==
    /\ pc = "done"
    /\ \E k \in 1..Len(sessions) :
        /\ sessions[k].end_reason = "inactivity_timeout"
        /\ sessions[k].start_time < sessions[k].end_time
        /\ \E e \in Events :
              /\ TimeOf(e) > sessions[k].end_time + 60
              /\ Occurrences(sessions[k], e) = 0

C10_Step ==
    ( /\ pc = "scan"
      /\ i <= Len(timeline)
      /\ CurTime # NoTime
      /\ CurId = "21"
      /\ current_session # NoSession
      /\ CurTime - last_event_time <= 60 ) =>
        /\ sessions' =
               Append(sessions,
                      [current_session[1] EXCEPT
                          !.end_time = CurTime,
                          !.end_reason = "overlapping_session_start"])
        /\ Len(current_session') = 1
        /\ current_session'[1].start_time = CurTime
        /\ current_session'[1].end_time = NoTime
        /\ current_session'[1].events = <<CurEv>>

\* C10: a start marker arriving while a session is open (and not closed by
\* the inactivity check) appends the open session with end_reason
\* overlapping_session_start and end_time = the marker's time, and opens a
\* new session starting at that time with the marker as its only member.
C10_OverlappingStart == [][C10_Step]_vars

C10_Witness ==
    /\ pc = "done"
    /\ Cardinality(StartMarkers) = 2
    /\ \A e \in Events : raw_events[e].event_id \notin {"24", "4634"}
    /\ Len(sessions) = 2
    /\ sessions[1].end_reason = "overlapping_session_start"
    /\ sessions[1].end_time = sessions[2].start_time
    /\ sessions[1].start_time < sessions[1].end_time

C11_Step ==
    (pc = "scan" /\ i <= Len(timeline) /\ CurTime # NoTime) =>
        /\ ( /\ CurId \in {"24", "4634"}
             /\ current_session # NoSession
             /\ CurTime - last_event_time <= 60 ) =>
               /\ correlation'[CurEv] = "in_session"
               /\ sessions' =
                      Append(sessions,
                             [current_session[1] EXCEPT
                                 !.events = Append(@, CurEv),
                                 !.end_time = CurTime,
                                 !.end_reason = "explicit_logoff"])
               /\ current_session' = NoSession
        /\ (current_session = NoSession /\ CurId # "21") =>
               /\ current_session' = NoSession
               /\ sessions' = sessions
               /\ correlation' = correlation

\* C11: a logoff marker (24 or 4634) arriving in an open session that the
\* inactivity check did not close is tagged in_session and appended, the
\* session is closed with explicit_logoff at the marker's time and the
\* builder is Idle; in Idle the session pass attaches no non-start event.
C11_ExplicitLogoff == [][C11_Step]_vars

C11_Witness ==
    /\ pc = "done"
    /\ \E k \in 1..Len(sessions) :
        LET s == sessions[k]
        IN  /\ s.end_reason = "explicit_logoff"
            /\ Len(s.events) >= 2
            /\ raw_events[s.events[2]].event_id = "4634"
            /\ correlation[s.events[2]] = "in_session"
            /\ TimeOf(s.events[2]) = s.end_time
            /\ \E e \in Events :
                  /\ TimeOf(e) # NoTime
                  /\ TimeOf(e) >= s.end_time
                  /\ raw_events[e].event_id = "24"
                  /\ SessionsOf(e) = {}

\* time of the last timeline event that has a timestamp
LastTimedTime ==
    LET P == {p \in 1..Len(timeline) : TimeOf(timeline[p]) # NoTime}
    IN  IF P = {} THEN NoTime
        ELSE TimeOf(timeline[CHOOSE p \in P : \A q \in P : q <= p])

TimedStartMarkers ==
    {e \in Events : raw_events[e].event_id = "21" /\ TimeOf(e) # NoTime}

C12_Step ==
    (pc = "scan" /\ i > Len(timeline)) =>
        /\ current_session # NoSession =>
               sessions' =
                   Append(sessions,
                          [current_session[1] EXCEPT
                              !.end_time = LastTimedTime,
                              !.end_reason = "session_open_at_log_end"])
        /\ current_session = NoSession => sessions' = sessions
        /\ Len(sessions') = Cardinality(TimedStartMarkers)

\* C12: a session still open after the last timeline event is appended with
\* end_reason session_open_at_log_end and end_time = the time of the last
\* timestamped event of the whole timeline; no session is left out of the
\* output list.
C12_OpenAtLogEnd == [][C12_Step]_vars

C12_Witness ==
    /\ pc = "done"
    /\ Len(sessions) = 2
    /\ sessions[2].end_reason = "session_open_at_log_end"
    /\ sessions[2].end_time = LastTimedTime
    /\ sessions[2].start_time < sessions[2].end_time

\* tl holds every event exactly once
IsPermutation(tl) ==
    /\ Len(tl) = Len(raw_events)
    /\ \A e \in Events : \E p \in 1..Len(tl) : tl[p] = e

\* in tl the events without a timestamp come first and the others are in
\* ascending parsed_time order
UntimedFirstAscending(tl) ==
    \A p, q \in 1..Len(tl) :
        p < q =>
            /\ TimeOf(tl[q]) = NoTime => TimeOf(tl[p]) = NoTime
            /\ (TimeOf(tl[p]) # NoTime /\ TimeOf(tl[q]) # NoTime)
                   => TimeOf(tl[p]) <= TimeOf(tl[q])

\* C13: for any input, also one mixing events with and without timestamps,
\* build_timeline returns a permutation of all input events with the
\* timestamp-less events first and the others in ascending parsed_time order.
C13_SortedPermutation ==
    pc # "start" =>
        IsPermutation(timeline) /\ UntimedFirstAscending(timeline)

\* build_timeline has returned
Built == pc \in {"scan", "grace", "done"}

\* the returned timeline as a list of event records
TimelineRecords == [k \in 1..Len(timeline) |-> raw_events[timeline[k]]]

\* C14: the sort is stable (events with equal or missing timestamps keep
\* their original relative order) and idempotent (build_timeline run on its
\* own output returns the identical sequence).
C14_StableIdempotent ==
    Built =>
        /\ \A p, q \in 1..Len(timeline) :
               ( /\ p < q
                 /\ TimeOf(timeline[p]) = TimeOf(timeline[q]) )
               => timeline[p] < timeline[q]
        /\ ~SortRaises(FillParsedTime(TimelineRecords))
        /\ FillParsedTime(TimelineRecords) = TimelineRecords
        /\ sorted(FillParsedTime(TimelineRecords))
               = [k \in 1..Len(timeline) |-> k]

C14_Witness ==
    /\ Built
    /\ timeline # [k \in 1..Len(timeline) |-> k]
    /\ \E p, q \in 1..Len(timeline) :
        /\ p < q
        /\ TimeOf(timeline[p]) = NoTime
        /\ TimeOf(timeline[q]) = NoTime
        /\ raw_events[timeline[p]] # raw_events[timeline[q]]
    /\ \E p \in 1..Len(timeline) : TimeOf(timeline[p]) # NoTime

\* C15: for any collection of event records, also one that holds events
\* without a usable timestamp next to events with valid UTC timestamps,
\* build_timeline and build_sessions raise no error.
C15_NeverRaises == pc # "raised"

\* C16 (as stated): once a session is closed and appended to the output
\* list, no later step of build_sessions, the grace pass included, changes
\* any field of it, the events list included.
C16_ClosedSessionImmutable ==
    [][\A k \in 1..Len(sessions) : sessions'[k] = sessions[k]]_vars

C16_Step ==
    \A k \in 1..Len(sessions) :
        /\ pc = "scan" => sessions'[k] = sessions[k]
        /\ sessions'[k].start_time = sessions[k].start_time
        /\ sessions'[k].end_time = sessions[k].end_time
        /\ sessions'[k].start_reason = sessions[k].start_reason
        /\ sessions'[k].end_reason = sessions[k].end_reason
        /\ sessions'[k].user = sessions[k].user
        /\ sessions'[k].source_ip = sessions[k].source_ip
        /\ \/ sessions'[k].events = sessions[k].events
           \/ /\ pc = "grace"
              /\ j <= Len(dfir_events)
              /\ IsDfir(dfir_events[j])
              /\ sessions'[k].events
                     = Append(sessions[k].events, dfir_events[j])

\* C16 (amended): once a session is closed and appended to the output list,
\* the session pass changes no field of it, and the grace pass leaves its
\* start_time, end_time, end_reason, user and source_ip unchanged and changes
\* its events list only by appending an administratively significant event
\* at the end.
C16_ClosedSessionOnlyGrows == [][C16_Step]_vars

C16_Witness ==
    /\ pc = "done"
    /\ \E k \in 1..Len(sessions) :
        LET s == sessions[k]
        IN  /\ Len(s.events) >= 3
            /\ correlation[s.events[2]] = "in_session"
            /\ correlation[s.events[Len(s.events)]] = "grace_before"

\* C18: at most one session is open at a time and sessions never overlap:
\* the output list is nondecreasing in start_time, every session ends no
\* later than the next one starts (so the list is nondecreasing in end_time
\* too), and every closed session ends no later than the open one starts.
C18_SessionsDoNotOverlap ==
    /\ Len(current_session) <= 1
    /\ \A k \in 1..Len(sessions) :
           /\ k < Len(sessions) =>
                  /\ sessions[k].start_time <= sessions[k + 1].start_time
                  /\ sessions[k].end_time <= sessions[k + 1].start_time
                  /\ sessions[k].end_time <= sessions[k + 1].end_time
           /\ current_session # NoSession =>
                  sessions[k].end_time <= current_session[1].start_time

C18_Witness ==
    /\ pc = "done"
    /\ Len(sessions) = 2
    /\ sessions[1].start_time < sessions[1].end_time
    /\ sessions[1].end_time < sessions[2].start_time
    /\ sessions[1].end_reason = "inactivity_timeout"

\* the first member of s is a start marker at s.start_time
StartsWithMarker(s) ==
    /\ Len(s.events) >= 1
    /\ raw_events[s.events[1]].event_id = "21"
    /\ TimeOf(s.events[1]) = s.start_time

C19_Inv ==
    /\ \A s \in AllSessions : StartsWithMarker(s)
    \* the open session: members attached by the session pass
    /\ \A k \in 1..Len(current_session) :
         \A p \in 1..Len(current_session[k].events) :
            /\ current_session[k].start_time
                   <= TimeOf(current_session[k].events[p])
            /\ TimeOf(current_session[k].events[p]) <= last_event_time
    /\ \A k \in 1..Len(sessions) : \A p \in 1..Len(sessions[k].events) :
         LET s == sessions[k]
             t == TimeOf(s.events[p])
         IN  \* until the grace pass starts every member was attached by the
             \* session pass; later on every member without an
             \* administratively significant id still is
             /\ (pc = "scan" \/ ~IsDfir(s.events[p])) =>
                    s.start_time <= t /\ t <= s.end_time
             /\ s.start_time - 5 <= t /\ t <= s.end_time + 15
    /\ \A e \in Events :
         (~IsDfir(e) /\ correlation[e] = NoValue) =>
             /\ SessionsOf(e) = {}
             /\ \A s \in AllSessions : Occurrences(s, e) = 0

C19_Step ==
    \* an event attached by the grace pass is inside the extended window
    /\ (pc = "grace" /\ j <= Len(dfir_events)) =>
          \A k \in 1..Len(sessions) :
              \/ sessions'[k].events = sessions[k].events
              \/ /\ sessions'[k].events
                        = Append(sessions[k].events, dfir_events[j])
                 /\ sessions[k].start_time - 5 <= TimeOf(dfir_events[j])
                 /\ TimeOf(dfir_events[j]) <= sessions[k].end_time + 15
    \* an event that arrives in Idle and is no start marker stays untagged
    \* and joins no session
    /\ ( /\ pc = "scan"
         /\ i <= Len(timeline)
         /\ CurTime # NoTime
         /\ CurId # "21"
         /\ \/ current_session = NoSession
            \/ CurTime - last_event_time > 60 ) =>
          /\ correlation'[CurEv] = NoValue
          /\ current_session' = NoSession
          /\ \A k \in 1..Len(sessions') :
                 Occurrences(sessions'[k], CurEv) = 0

\* C19: every event attached by the session pass lies in
\* [start_time, end_time] of its session and the first member is the start
\* marker at start_time; every event attached by the grace pass lies in
\* [start_time - 5, end_time + 15]; an event that arrives in Idle and is
\* neither a start marker nor administratively significant is in no
\* session's events list.
C19_MembersBounded == []C19_Inv /\ [][C19_Step]_vars

C19_Witness ==
    /\ pc = "done"
    /\ \E k \in 1..Len(sessions) :
        /\ \E p \in 1..Len(sessions[k].events) :
              /\ correlation[sessions[k].events[p]] = "grace_before"
              /\ TimeOf(sessions[k].events[p]) < sessions[k].start_time
        /\ \E e \in Events :
              /\ ~IsDfir(e)
              /\ raw_events[e].event_id # "21"
              /\ TimeOf(e) # NoTime
              /\ TimeOf(e) < sessions[k].start_time
              /\ SessionsOf(e) = {}

\* positions of the candidate keys that are present in d with a non-empty
\* value
NonEmptyKeys(d, keys) ==
    {n \in 1..Len(keys) :
        keys[n] \in DOMAIN d /\ d[keys[n]] # NoValue /\ d[keys[n]] # ""}

\* value of the first candidate key with a non-empty value, null if none
FirstNonEmpty(d, keys) ==
    IF NonEmptyKeys(d, keys) = {} THEN NoValue
    ELSE d[keys[CHOOSE n \in NonEmptyKeys(d, keys) :
                   \A m \in NonEmptyKeys(d, keys) : n <= m]]

\* C20: a session's user (source_ip) is the value, in the details of its
\* start-marker event, of the first key of TargetUserName, SubjectUserName,
\* User, AccountName, Param1 (IpAddress, ClientAddress,
\* SourceNetworkAddress, Address, Param3) that is present and non-empty, and
\* null when no candidate key has a non-empty value.
C20_FirstNonEmptyCandidate ==
    \A s \in AllSessions :
        LET d == raw_events[s.events[1]].details
        IN  /\ s.user =
                   FirstNonEmpty(d, <<"TargetUserName", "SubjectUserName",
                                      "User", "AccountName", "Param1">>)
            /\ s.source_ip =
                   FirstNonEmpty(d, <<"IpAddress", "ClientAddress",
                                      "SourceNetworkAddress", "Address",
                                      "Param3">>)

\* the timeline tl without its entry at position p
WithoutAt(tl, p) == SubSeq(tl, 1, p - 1) \o SubSeq(tl, p + 1, Len(tl))

C17_Inv ==
    /\ Built =>
         \A e \in Events :
            TimeOf(e) = NoTime =>
                /\ correlation[e] = NoValue
                /\ \A s \in AllSessions : Occurrences(s, e) = 0
    /\ pc = "done" =>
         /\ build_sessions(timeline).ss = sessions
         /\ build_sessions(timeline).corr = correlation
         /\ \A p \in 1..Len(timeline) :
                TimeOf(timeline[p]) = NoTime =>
                    build_sessions(WithoutAt(timeline, p)).ss = sessions

C17_Step ==
    ( \/ pc = "scan" /\ i <= Len(timeline) /\ CurTime = NoTime
      \/ pc = "grace" /\ j <= Len(dfir_events) /\ GraceTime = NoTime ) =>
        /\ sessions' = sessions
        /\ current_session' = current_session
        /\ last_event_time' = last_event_time
        /\ correlation' = correlation

\* C17: an event without parsed timestamp never opens, extends or closes a
\* session, does not update last_event_time, is never tagged and is in no
\* session's events list; the session list build_sessions returns equals
\* the one it returns for the timeline without that event.
C17_UntimedHasNoEffect == []C17_Inv /\ [][C17_Step]_vars

C17_Witness ==
    /\ pc = "done"
    /\ Len(sessions) >= 1
    /\ \E p, q \in 1..Len(timeline) :
        /\ p # q
        /\ TimeOf(timeline[p]) = NoTime
        /\ raw_events[timeline[p]].event_id = "21"
        /\ TimeOf(timeline[q]) = NoTime
        /\ IsDfir(timeline[q])

====
